---------------------------- MODULE Spec2Model ----------------------------
(***************************************************************************)
(* Model of src/iter_main.rs: the free functions scale, offset, mean,      *)
(* composed_func and inlined_func over a caller-owned buffer of f32.       *)
(*                                                                         *)
(* An f32 is modelled by its three IEEE-754 binary32 fields (sign, biased  *)
(* exponent, fraction) and the three arithmetic operations the functions   *)
(* use (multiply, add, divide) are                                         *)
(* computed bit-exactly with round-to-nearest-even, subnormals, signed     *)
(* zeros, infinities and NaN.  All NaNs are represented by one canonical   *)
(* quiet NaN (Rust leaves the payload of a computed NaN unspecified).      *)
(***************************************************************************)
EXTENDS Integers, Sequences, FiniteSets

VARIABLES array, hist
vars == <<array, hist>>

----------------------------------------------------------------------------
(* The f32 type                                                            *)

MantBits == 23
ExpMax == 255
Bias == 127
Hidden == 2^MantBits

F32(s, e, m) == [sign |-> s, exp |-> e, frac |-> m]

NaN == F32(0, ExpMax, 2^(MantBits - 1))
Inf(s) == F32(s, ExpMax, 0)
Zero(s) == F32(s, 0, 0)

IsNaN(x) == x.exp = ExpMax /\ x.frac # 0
IsInf(x) == x.exp = ExpMax /\ x.frac = 0
IsZero(x) == x.exp = 0 /\ x.frac = 0

\* significand and exponent of a finite value: value = Sig * 2^(Exp - Bias - MantBits)
Sig(x) == IF x.exp = 0 THEN x.frac ELSE x.frac + Hidden
Exp(x) == IF x.exp = 0 THEN 1 ELSE x.exp

RECURSIVE Norm(_, _)
\* shift a non-zero significand left until its hidden bit is set
Norm(sig, e) == IF sig >= Hidden THEN <<sig, e>> ELSE Norm(2 * sig, e - 1)

\* position of a discarded remainder relative to half a unit:
\* 0 exact, 1 below half, 2 exactly half, 3 above half
RndClass(rem, unit) ==
    IF rem = 0 THEN 0
    ELSE IF 2 * rem < unit THEN 1
    ELSE IF 2 * rem = unit THEN 2
    ELSE 3

\* round to nearest even and encode; sig < 2^(MantBits+1), rnd the class of
\* the bits already discarded below sig; e <= 0 denormalises the result
RoundPack(s, e, sig, rnd) ==
    LET k == IF e >= 1 THEN 0 ELSE IF 1 - e > MantBits + 2 THEN MantBits + 2 ELSE 1 - e
        unit == 2^k
        sig1 == sig \div unit
        c == RndClass(sig % unit, unit)
        rnd1 == IF k = 0 THEN rnd
                ELSE IF c = 0 THEN (IF rnd = 0 THEN 0 ELSE 1)
                ELSE IF c = 2 THEN (IF rnd = 0 THEN 2 ELSE 3)
                ELSE c
        e1 == IF e >= 1 THEN e ELSE 1
        up == rnd1 = 3 \/ (rnd1 = 2 /\ sig1 % 2 = 1)
        sig2 == IF up THEN sig1 + 1 ELSE sig1
        e2 == IF sig2 = 2 * Hidden THEN e1 + 1 ELSE e1
        sig3 == IF sig2 = 2 * Hidden THEN Hidden ELSE sig2
    IN  IF e2 >= ExpMax THEN Inf(s)
        ELSE IF sig3 >= Hidden THEN F32(s, e2, sig3 - Hidden)
        ELSE F32(s, 0, sig3)

\* the 48-bit product of two 24-bit significands as <<high 24 bits, low 24 bits>>
Mul48(x, y) ==
    LET h == 2^12
        x1 == x \div h
        x0 == x % h
        y1 == y \div h
        y0 == y % h
        mid == x1 * y0 + x0 * y1
        lo == x0 * y0 + (mid % h) * h
    IN  <<x1 * y1 + mid \div h + lo \div (2 * Hidden), lo % (2 * Hidden)>>

\* f32 * f32
f32_mul(a, b) ==
    LET s == (a.sign + b.sign) % 2 IN
    IF IsNaN(a) \/ IsNaN(b) THEN NaN
    ELSE IF IsInf(a) \/ IsInf(b)
         THEN (IF IsZero(a) \/ IsZero(b) THEN NaN ELSE Inf(s))
    ELSE IF IsZero(a) \/ IsZero(b) THEN Zero(s)
    ELSE LET na == Norm(Sig(a), Exp(a))
             nb == Norm(Sig(b), Exp(b))
             p == Mul48(na[1], nb[1])
             e == na[2] + nb[2] - Bias
         IN  IF p[1] >= Hidden
             THEN RoundPack(s, e + 1, p[1], RndClass(p[2], 2 * Hidden))
             ELSE RoundPack(s, e, 2 * p[1] + p[2] \div Hidden,
                            RndClass(p[2] % Hidden, Hidden))

\* shift right by d bits, or-ing the bits shifted out into the lowest bit
ShiftRightJam(x, d) ==
    LET u == 2^d IN
    IF x % u = 0 THEN x \div u
    ELSE ((x \div u) \div 2) * 2 + 1

RECURSIVE NormUp(_, _)
\* shift a 27-bit working significand left until bit 26 is set or the
\* exponent reaches the subnormal exponent
NormUp(t, e) == IF t >= 8 * Hidden \/ e = 1 THEN <<t, e>> ELSE NormUp(2 * t, e - 1)

\* round a working significand carrying three extra low bits
Round27(s, e, t) == RoundPack(s, e, t \div 8, RndClass(t % 8, 8))

\* f32 + f32
f32_add(a, b) ==
    IF IsNaN(a) \/ IsNaN(b) THEN NaN
    ELSE IF IsInf(a) THEN (IF IsInf(b) /\ b.sign # a.sign THEN NaN ELSE a)
    ELSE IF IsInf(b) THEN b
    ELSE IF IsZero(a) /\ IsZero(b) THEN (IF a.sign = b.sign THEN a ELSE Zero(0))
    ELSE IF IsZero(a) THEN b
    ELSE IF IsZero(b) THEN a
    ELSE LET swap == Exp(a) < Exp(b) \/ (Exp(a) = Exp(b) /\ Sig(a) < Sig(b))
             x == IF swap THEN b ELSE a
             y == IF swap THEN a ELSE b
             d == IF Exp(x) - Exp(y) > MantBits + 4 THEN MantBits + 4
                  ELSE Exp(x) - Exp(y)
             xs == 8 * Sig(x)
             ys == ShiftRightJam(8 * Sig(y), d)
         IN  IF x.sign = y.sign
             THEN IF xs + ys >= 16 * Hidden
                  THEN Round27(x.sign, Exp(x) + 1, ShiftRightJam(xs + ys, 1))
                  ELSE Round27(x.sign, Exp(x), xs + ys)
             ELSE IF xs = ys THEN Zero(0)
                  ELSE LET n == NormUp(xs - ys, Exp(x))
                       IN  Round27(x.sign, n[2], n[1])

RECURSIVE LongDiv(_, _, _, _)
\* n quotient bits of r / d, r < 2 * d; yields <<quotient, 2 * remainder>>
LongDiv(r, d, q, n) ==
    IF n = 0 THEN <<q, r>>
    ELSE IF r >= d THEN LongDiv(2 * (r - d), d, 2 * q + 1, n - 1)
    ELSE LongDiv(2 * r, d, 2 * q, n - 1)

\* f32 / f32
f32_div(a, b) ==
    LET s == (a.sign + b.sign) % 2 IN
    IF IsNaN(a) \/ IsNaN(b) THEN NaN
    ELSE IF IsInf(a) THEN (IF IsInf(b) THEN NaN ELSE Inf(s))
    ELSE IF IsInf(b) THEN Zero(s)
    ELSE IF IsZero(b) THEN (IF IsZero(a) THEN NaN ELSE Inf(s))
    ELSE IF IsZero(a) THEN Zero(s)
    ELSE LET na == Norm(Sig(a), Exp(a))
             nb == Norm(Sig(b), Exp(b))
             lt == na[1] < nb[1]
             e == na[2] - nb[2] + Bias - (IF lt THEN 1 ELSE 0)
             qr == LongDiv(IF lt THEN 2 * na[1] ELSE na[1], nb[1], 0, MantBits + 1)
         IN  RoundPack(s, e, qr[1], RndClass(qr[2] \div 2, nb[1]))

\* usize as f32, for lengths below 2^(MantBits+1) (exact)
usize_as_f32(n) ==
    IF n = 0 THEN Zero(0)
    ELSE LET p == Norm(n, Bias + MantBits) IN F32(0, p[2], p[1] - Hidden)

----------------------------------------------------------------------------
(* The functions of src/iter_main.rs.  Each is the result of one call:     *)
(* the caller's buffer after the call and the value returned.              *)

\* the () a function without a return value yields: the empty tuple
Unit == <<>>

\* the literal 1.98765432 as f32
K == F32(0, 127, 8285045)

RECURSIVE fold_overwrite(_, _, _)
\* fold whose closure is |sum, x| x: the accumulator is dropped
fold_overwrite(array_, i, sum) ==
    IF i > Len(array_) THEN sum
    ELSE fold_overwrite(array_, i + 1, f32_add(Zero(0), array_[i]))

RECURSIVE fold(_, _, _)
\* iter().fold(sum, |sum, x| sum + x) over the elements from index i on
fold(array_, i, sum) ==
    IF i > Len(array_) THEN sum
    ELSE fold(array_, i + 1, f32_add(sum, array_[i]))

\* inlined_func with the two map stages swapped: + K, then * scaling
inlined_func_offset_first(array_, scaling) ==
    LET shifted == [i \in DOMAIN array_ |-> f32_add(array_[i], K)]
        scaled == [i \in DOMAIN array_ |-> f32_mul(shifted[i], scaling)]
    IN  [array |-> array_,
         ret |-> f32_div(fold(scaled, 1, Zero(0)), usize_as_f32(Len(array_)))]

\* inlined_func writing the mapped values back into the caller's buffer
inlined_func_in_place(array_, scaling) ==
    LET scaled == [i \in DOMAIN array_ |-> f32_mul(array_[i], scaling)]
        shifted == [i \in DOMAIN array_ |-> f32_add(scaled[i], K)]
    IN  [array |-> shifted,
         ret |-> f32_div(fold(shifted, 1, Zero(0)), usize_as_f32(Len(array_)))]

inlined_func(array_, scaling) ==
    LET scaled == [i \in DOMAIN array_ |-> f32_mul(array_[i], scaling)]
        shifted == [i \in DOMAIN array_ |-> f32_add(scaled[i], K)]
    IN  [array |-> array_,
         ret |-> f32_div(fold(shifted, 1, Zero(0)), usize_as_f32(Len(array_)))]

\* scale stopping one element short
scale_skip_last(array_, scaling) ==
    [array |-> [i \in DOMAIN array_ |->
                    IF i = Len(array_) THEN array_[i]
                    ELSE f32_mul(array_[i], scaling)],
     ret |-> Unit]

\* scale writing the products back in reverse order
scale_reversed(array_, scaling) ==
    [array |-> [i \in DOMAIN array_ |->
                    f32_mul(array_[Len(array_) + 1 - i], scaling)],
     ret |-> Unit]

\* scale with + in place of *
scale_add(array_, scaling) ==
    [array |-> [i \in DOMAIN array_ |-> f32_add(array_[i], scaling)],
     ret |-> Unit]

scale(array_, scaling) ==
    [array |-> [i \in DOMAIN array_ |-> f32_mul(array_[i], scaling)],
     ret |-> Unit]

\* offset with - in place of +
offset_sub(array_, y) ==
    [array |-> [i \in DOMAIN array_ |->
                    f32_add(array_[i], F32(1 - y.sign, y.exp, y.frac))],
     ret |-> Unit]

offset(array_, y) ==
    [array |-> [i \in DOMAIN array_ |-> f32_add(array_[i], y)],
     ret |-> Unit]

\* mean guarding the empty buffer and returning 0 for it
mean_empty_zero(array_) ==
    LET sum == fold(array_, 1, Zero(0))
    IN  [array |-> array_,
         ret |-> IF Len(array_) = 0 THEN Zero(0)
                 ELSE f32_div(sum, usize_as_f32(Len(array_)))]

mean(array_) ==
    LET sum == fold(array_, 1, Zero(0))
    IN  [array |-> array_, ret |-> f32_div(sum, usize_as_f32(Len(array_)))]

\* composed_func taking the mean before the offset is applied
composed_func_mean_first(array_, scaling) ==
    LET a1 == scale(array_, scaling).array
        a2 == offset(a1, K).array
    IN  [array |-> a2, ret |-> mean(a1).ret]

\* composed_func working on a private copy of the buffer
composed_func_on_copy(array_, scaling) ==
    LET a1 == scale(array_, scaling).array
        a2 == offset(a1, K).array
    IN  [array |-> array_, ret |-> mean(a2).ret]

composed_func(array_, scaling) ==
    LET a1 == scale(array_, scaling).array
        a2 == offset(a1, K).array
    IN  mean(a2)

----------------------------------------------------------------------------
(* The caller: one buffer and a bounded sequence of calls on it.           *)

MaxLen == 2
MaxCalls == 2

\* 3.4, -5.7, +infinity and the smallest positive subnormal
Elems == {F32(0, 128, 5872026), F32(1, 129, 3565158), Inf(0), F32(0, 0, 1)}

\* 0.6, 1.0 and 0.0
Scalars == {F32(0, 126, 1677722), F32(0, Bias, 0), Zero(0)}

Buffers == UNION {[1..n -> Elems] : n \in 0..MaxLen}

Init ==
    /\ array \in Buffers
    /\ hist = <<>>

\* the call history extended by one call made on the buffer
Logged(op, arg, r) ==
    Append(hist, [op |-> op, arg |-> arg, pre |-> array, ret |-> r.ret])

ScaleCall ==
    \E s \in Scalars :
        /\ Len(hist) < MaxCalls
        /\ array' = scale(array, s).array
        /\ hist' = Logged("scale", s, scale(array, s))

OffsetCall ==
    \E d \in Scalars :
        /\ Len(hist) < MaxCalls
        /\ array' = offset(array, d).array
        /\ hist' = Logged("offset", d, offset(array, d))

MeanCall ==
    /\ Len(hist) < MaxCalls
    /\ array' = mean(array).array
    /\ hist' = Logged("mean", Unit, mean(array))

ComposedCall ==
    \E f \in Scalars :
        /\ Len(hist) < MaxCalls
        /\ array' = composed_func(array, f).array
        /\ hist' = Logged("composed_func", f, composed_func(array, f))

InlinedCall ==
    \E f \in Scalars :
        /\ Len(hist) < MaxCalls
        /\ array' = inlined_func(array, f).array
        /\ hist' = Logged("inlined_func", f, inlined_func(array, f))

Next ==
    \/ ScaleCall
    \/ OffsetCall
    \/ MeanCall
    \/ ComposedCall
    \/ InlinedCall

Spec == Init /\ [][Next]_vars

----------------------------------------------------------------------------
(* Properties                                                              *)

Last == hist[Len(hist)]
Called(op) == Len(hist) > 0 /\ Last.op = op

\* the buffer before the first call
array0 == IF Len(hist) = 0 THEN array ELSE hist[1].pre

One == F32(0, Bias, 0)

\* the f32 comparison a != b: a NaN differs from everything, -0 equals +0
f32_ne(a, b) ==
    \/ IsNaN(a)
    \/ IsNaN(b)
    \/ (a # b /\ ~(IsZero(a) /\ IsZero(b)))

RECURSIVE LeftSum(_)
\* the elements of a buffer added one after the other, left to right, to 0
LeftSum(b) ==
    IF Len(b) = 0 THEN Zero(0)
    ELSE f32_add(LeftSum(SubSeq(b, 1, Len(b) - 1)), b[Len(b)])

\* x * f, then + 1.98765432
Transform(x, f) == f32_add(f32_mul(x, f), K)

\* C1: for a non-empty buffer B and factor f, composed_func on B returns the
\* very value inlined_func(B, f) returns on the contents B had before the call
\* (identical f32 results, hence within any tolerance; two NaN results count
\* as the same), and an inlined_func call returns what composed_func returns
\* on a copy, although only composed_func changes the buffer.
C1_ComposedEqualsInlined ==
    /\ (Called("composed_func") /\ Len(Last.pre) > 0)
          => Last.ret = inlined_func(Last.pre, Last.arg).ret
    /\ (Called("inlined_func") /\ Len(Last.pre) > 0)
          => Last.ret = composed_func(Last.pre, Last.arg).ret

C1_Witness ==
    /\ Called("composed_func")
    /\ Len(Last.pre) = MaxLen
    /\ array # Last.pre
    /\ ~IsNaN(Last.ret) /\ ~IsInf(Last.ret)
    /\ Last.ret = inlined_func(Last.pre, Last.arg).ret

\* C2: composed_func(buffer, factor) is scale(buffer, factor), then
\* offset(buffer, K), then mean(buffer): on return element i of the buffer is
\* (old[i] * factor) + K and the value returned is the mean of the buffer as
\* it is after the call.
C2_ComposedIsScaleOffsetMean ==
    Called("composed_func") =>
        /\ array = offset(scale(Last.pre, Last.arg).array, K).array
        /\ Len(array) = Len(Last.pre)
        /\ \A i \in 1..Len(array) : array[i] = Transform(Last.pre[i], Last.arg)
        /\ Last.ret = mean(array).ret

C2_Witness ==
    /\ Called("composed_func")
    /\ Len(array) = MaxLen
    /\ \A i \in 1..Len(array) : array[i] # Last.pre[i] /\ ~IsNaN(array[i])
    /\ Last.ret = mean(array).ret

\* C3: on a zero-length buffer mean, composed_func and inlined_func return
\* NaN as an ordinary f32 result, and scale and offset return () and leave
\* the buffer empty.
C3_EmptyBuffer ==
    (Len(hist) > 0 /\ Len(Last.pre) = 0) =>
        /\ array = <<>>
        /\ Last.op \in {"mean", "composed_func", "inlined_func"} => IsNaN(Last.ret)
        /\ Last.op \in {"scale", "offset"} => Last.ret = Unit

C3_Witness ==
    /\ Len(hist) = 2
    /\ hist[1].op = "scale" /\ hist[1].pre = <<>>
    /\ hist[2].op = "composed_func" /\ IsNaN(hist[2].ret)

\* C4: after scale(B, s) the element at every index i is old B[i] * s, the
\* length is unchanged and nothing is returned.
C4_Scale ==
    Called("scale") =>
        /\ Len(array) = Len(Last.pre)
        /\ \A i \in 1..Len(Last.pre) : array[i] = f32_mul(Last.pre[i], Last.arg)
        /\ Last.ret = Unit

C4_Witness ==
    /\ Called("scale")
    /\ Len(Last.pre) = MaxLen
    /\ \A i \in 1..Len(Last.pre) : array[i] # Last.pre[i]

\* C5: after offset(B, d) the element at every index i is old B[i] + d and
\* the length is unchanged.
C5_Offset ==
    Called("offset") =>
        /\ Len(array) = Len(Last.pre)
        /\ \A i \in 1..Len(Last.pre) : array[i] = f32_add(Last.pre[i], Last.arg)

C5_Witness ==
    /\ Called("offset")
    /\ Len(Last.pre) = MaxLen
    /\ \A i \in 1..Len(Last.pre) : array[i] # Last.pre[i]

\* C6: for a non-empty buffer B, mean(B) is the sum of the elements,
\* accumulated left to right starting from 0, divided by the length; the f32
\* result is that quotient exactly, so it is within any rounding tolerance.
C6_Mean ==
    (Called("mean") /\ Len(Last.pre) > 0) =>
        Last.ret = f32_div(LeftSum(Last.pre), usize_as_f32(Len(Last.pre)))

C6_Witness ==
    /\ Called("mean")
    /\ Len(Last.pre) = MaxLen
    /\ ~IsNaN(Last.ret) /\ ~IsInf(Last.ret) /\ ~IsZero(Last.ret)
    /\ \E i \in 1..Len(Last.pre) : Last.ret # Last.pre[i]

\* C7: mean and inlined_func leave the caller's buffer as it was: every
\* element and the length are the same after the call as before it.
C7_ReadOnly ==
    (Called("mean") \/ Called("inlined_func")) =>
        /\ Len(array) = Len(Last.pre)
        /\ \A i \in 1..Len(array) : array[i] = Last.pre[i]

C7_Witness ==
    /\ Called("inlined_func")
    /\ Len(array) = MaxLen
    /\ array = Last.pre
    /\ array # composed_func(Last.pre, Last.arg).array

RECURSIVE ElemAfter(_, _)
\* what the first n calls of the history make of one element x, by itself
ElemAfter(x, n) ==
    IF n = 0 THEN x
    ELSE LET c == hist[n]
             y == ElemAfter(x, n - 1)
         IN  CASE c.op = "scale" -> f32_mul(y, c.arg)
               [] c.op = "offset" -> f32_add(y, c.arg)
               [] c.op = "composed_func" -> Transform(y, c.arg)
               [] OTHER -> y

\* C8: after any sequence of calls the buffer has its initial length, and
\* the value at index i is determined by the initial value at index i and
\* the scalars passed: no call inserts, removes or reorders elements or
\* makes an element depend on another.
C8_ElementwiseLengthPreserving ==
    /\ Len(array) = Len(array0)
    /\ \A i \in 1..Len(array) : array[i] = ElemAfter(array0[i], Len(hist))

C8_Witness ==
    /\ Len(hist) = MaxCalls
    /\ Len(array) = MaxLen
    /\ \A n \in 1..Len(hist) : hist[n].op \in {"scale", "offset", "composed_func"}
    /\ \A i \in 1..Len(array) : array[i] # array0[i] /\ ~IsNaN(array[i])
    /\ \E i, j \in 1..Len(array) : array[i] # array[j]

\* C9: scale(B, 1.0) leaves every element of B unchanged.
C9_ScaleByOne ==
    (Called("scale") /\ Last.arg = One) => array = Last.pre

C9_Witness ==
    /\ Called("scale")
    /\ Last.arg = One
    /\ Len(array) = MaxLen
    /\ \E i \in 1..Len(array) : array[i].exp = 0 /\ array[i].frac # 0
    /\ array = Last.pre

\* two calls of op in succession, with the same factor
Twice(op) ==
    /\ Len(hist) >= 2
    /\ hist[Len(hist) - 1].op = op
    /\ Last.op = op
    /\ hist[Len(hist) - 1].arg = Last.arg

First == hist[Len(hist) - 1]

\* C10 (as amended): composed_func(B, f) called twice in succession applies
\* the transform twice: after the second call every element is
\* ((B0[i] * f) + K) * f + K and the second return value is the mean of those
\* elements; inlined_func(B, f) called twice in succession returns the same
\* value both times.
C10_ComposedTwice ==
    /\ Twice("composed_func") =>
          /\ Len(array) = Len(First.pre)
          /\ \A i \in 1..Len(array) :
                array[i] = Transform(Transform(First.pre[i], Last.arg), Last.arg)
          /\ Last.ret = mean(array).ret
    /\ Twice("inlined_func") => Last.ret = First.ret

\* the second return value does differ from the first in the ordinary case
C10_Witness ==
    /\ Twice("composed_func")
    /\ Len(array) = MaxLen
    /\ ~IsNaN(Last.ret) /\ ~IsNaN(First.ret)
    /\ f32_ne(Last.ret, First.ret)

\* C10 (as stated): as above, and the second return value differs from the
\* first whenever the first call changed the mean of the buffer.
C10_AsStated ==
    /\ C10_ComposedTwice
    /\ Twice("composed_func") =>
          (f32_ne(mean(First.pre).ret, mean(Last.pre).ret)
              => f32_ne(Last.ret, First.ret))

=============================================================================
